---------------------------- MODULE Spec2Model ----------------------------
(***************************************************************************)
(* Model of homeassistant/components/proxmoxve/const.py: the descriptor    *)
(* tables built at module load, and the conversion and calculation         *)
(* lambdas the descriptors carry.                                          *)
(*                                                                         *)
(* Numbers.  A Python int is a TLA+ integer.  A Python float is a record   *)
(*   [hi, lo, den, exact]  standing for the rational  hi + lo/den  with    *)
(* 0 <= lo < den; exact says that the double the program holds IS that     *)
(* rational (no rounding error has entered).  A float returned by          *)
(* round(v, n) is [kind |-> "float", scaled |-> s, ndigits |-> n]: the     *)
(* decimal s / 10^n.  All magnitudes stay far below 2^53, so a double is   *)
(* inexact only through a division whose quotient is not dyadic.           *)
(***************************************************************************)
EXTENDS Integers, Sequences, FiniteSets

(***************************************************************************)
(* Bounds of the input sets.                                               *)
(***************************************************************************)
MaxEighth == 9
MaxDelta == 1
MaxCents == 3
FracBits == 5
DecDen == 80
MaxUsed == 18
MaxDays == 2

(***************************************************************************)
(* const.py, lines 47-61: the command vocabulary.                          *)
(***************************************************************************)
COMMAND_REBOOT == "reboot"
COMMAND_RESUME == "resume"
COMMAND_SHUTDOWN == "shutdown"
COMMAND_START == "start"
COMMAND_STOP == "stop"
COMMAND_SUSPEND == "suspend"

VM_COMMANDS ==
    << COMMAND_REBOOT, COMMAND_RESUME, COMMAND_SHUTDOWN,
       COMMAND_START, COMMAND_STOP, COMMAND_SUSPEND >>

(***************************************************************************)
(* The lambdas of the descriptors, as data: the operator Call below        *)
(* evaluates them.                                                         *)
(*   lambda x: timedelta(seconds=x)        [op |-> "timedelta"]            *)
(*   lambda x: round(x / d, n)             [op |-> "truediv_round", ...]   *)
(*   lambda x: round(x * f, n)             [op |-> "mul_round", ...]       *)
(*   lambda x: 1 - x[a] / x[b]             [op |-> "one_minus_ratio", ...] *)
(***************************************************************************)
SensorStateClass_MEASUREMENT == "measurement"
ATTR_TIME == "time"
DATA_GIGABYTES == "GB"
DATA_RATE_MEGABYTES_PER_SECOND == "MB/s"
PERCENTAGE == "%"

(* const.py, lines 64-69 *)
BinarySensor_status == [key |-> "status", icon |-> "mdi:server"]

PROXMOX_BINARYSENSOR_TYPES == << BinarySensor_status >>

(* const.py, lines 73-80 *)
Sensor_uptime ==
    [key |-> "uptime", icon |-> "mdi:database-clock-outline",
     unit_metric |-> ATTR_TIME, unit_imperial |-> ATTR_TIME,
     conversion |-> [op |-> "timedelta"],
     state_class |-> SensorStateClass_MEASUREMENT]

(* const.py, lines 81-87 *)
Sensor_disk ==
    [key |-> "disk", icon |-> "mdi:harddisk",
     native_unit_of_measurement |-> DATA_GIGABYTES,
     conversion |-> [op |-> "truediv_round", by |-> 1073741824, ndigits |-> 2],
     state_class |-> SensorStateClass_MEASUREMENT]

(* const.py, lines 88-95 *)
Sensor_maxdisk ==
    [key |-> "maxdisk", icon |-> "mdi:harddisk-plus",
     native_unit_of_measurement |-> DATA_GIGABYTES,
     conversion |-> [op |-> "truediv_round", by |-> 1073741824, ndigits |-> 2],
     state_class |-> SensorStateClass_MEASUREMENT,
     entity_registry_enabled_default |-> FALSE]

(* const.py, lines 96-103 *)
Sensor_diskread ==
    [key |-> "diskread", icon |-> "mdi:harddisk",
     native_unit_of_measurement |-> DATA_RATE_MEGABYTES_PER_SECOND,
     conversion |-> [op |-> "truediv_round", by |-> 1048576, ndigits |-> 2],
     state_class |-> SensorStateClass_MEASUREMENT,
     entity_registry_enabled_default |-> FALSE]

(* const.py, lines 104-111 *)
Sensor_diskwrite ==
    [key |-> "diskwrite", icon |-> "mdi:harddisk",
     native_unit_of_measurement |-> DATA_RATE_MEGABYTES_PER_SECOND,
     conversion |-> [op |-> "truediv_round", by |-> 1048576, ndigits |-> 2],
     state_class |-> SensorStateClass_MEASUREMENT,
     entity_registry_enabled_default |-> FALSE]

(* const.py, lines 112-117: no conversion is given *)
Sensor_cpus ==
    [key |-> "cpus", icon |-> "mdi:cpu-64-bit",
     state_class |-> SensorStateClass_MEASUREMENT,
     entity_registry_enabled_default |-> FALSE]

(* const.py, lines 118-126 *)
Sensor_cpu ==
    [key |-> "cpu", icon |-> "mdi:cpu-64-bit",
     unit_metric |-> PERCENTAGE, unit_imperial |-> PERCENTAGE,
     native_unit_of_measurement |-> PERCENTAGE,
     conversion |-> [op |-> "mul_round", by |-> 100, ndigits |-> 1],
     state_class |-> SensorStateClass_MEASUREMENT]

(* const.py, lines 127-133 *)
Sensor_mem ==
    [key |-> "mem", icon |-> "mdi:memory",
     native_unit_of_measurement |-> DATA_GIGABYTES,
     conversion |-> [op |-> "truediv_round", by |-> 1073741824, ndigits |-> 2],
     state_class |-> SensorStateClass_MEASUREMENT]

(* mutant: 'maxmem' converted with the divisor of the rate sensors *)
Sensor_maxmem_MiB ==
    [key |-> "maxmem", icon |-> "mdi:memory",
     native_unit_of_measurement |-> DATA_GIGABYTES,
     conversion |-> [op |-> "truediv_round", by |-> 1048576, ndigits |-> 2],
     state_class |-> SensorStateClass_MEASUREMENT,
     entity_registry_enabled_default |-> FALSE]

(* const.py, lines 134-141 *)
Sensor_maxmem ==
    [key |-> "maxmem", icon |-> "mdi:memory",
     native_unit_of_measurement |-> DATA_GIGABYTES,
     conversion |-> [op |-> "truediv_round", by |-> 1073741824, ndigits |-> 2],
     state_class |-> SensorStateClass_MEASUREMENT,
     entity_registry_enabled_default |-> FALSE]

(* mutant: 'netin' divided by the decimal megabyte *)
Sensor_netin_Decimal ==
    [key |-> "netin", icon |-> "mdi:mdi:download-network-outline",
     native_unit_of_measurement |-> DATA_RATE_MEGABYTES_PER_SECOND,
     conversion |-> [op |-> "truediv_round", by |-> 1000000, ndigits |-> 2],
     state_class |-> SensorStateClass_MEASUREMENT,
     entity_registry_enabled_default |-> FALSE]

(* const.py, lines 142-149 *)
Sensor_netin ==
    [key |-> "netin", icon |-> "mdi:mdi:download-network-outline",
     native_unit_of_measurement |-> DATA_RATE_MEGABYTES_PER_SECOND,
     conversion |-> [op |-> "truediv_round", by |-> 1048576, ndigits |-> 2],
     state_class |-> SensorStateClass_MEASUREMENT,
     entity_registry_enabled_default |-> FALSE]

(* const.py, lines 150-157 *)
Sensor_netout ==
    [key |-> "netout", icon |-> "mdi:upload-network-outline",
     native_unit_of_measurement |-> DATA_RATE_MEGABYTES_PER_SECOND,
     conversion |-> [op |-> "truediv_round", by |-> 1048576, ndigits |-> 2],
     state_class |-> SensorStateClass_MEASUREMENT,
     entity_registry_enabled_default |-> FALSE]

PROXMOX_SENSOR_TYPES ==
    << Sensor_uptime, Sensor_disk, Sensor_maxdisk, Sensor_diskread,
       Sensor_diskwrite, Sensor_cpus, Sensor_cpu, Sensor_mem, Sensor_maxmem,
       Sensor_netin, Sensor_netout >>

(* mutant: the calculated descriptor takes the key of the raw sensor *)
Calculated_disk_pct_free_RawKey ==
    [key |-> "disk", icon |-> "mdi:harddisk",
     unit_metric |-> PERCENTAGE, unit_imperial |-> PERCENTAGE,
     native_unit_of_measurement |-> PERCENTAGE,
     conversion |-> [op |-> "mul_round", by |-> 100, ndigits |-> 1],
     calculation |-> [op |-> "one_minus_ratio", num |-> "disk", den |-> "maxdisk"],
     state_class |-> SensorStateClass_MEASUREMENT]

(* const.py, lines 161-170 *)
Calculated_disk_pct_free ==
    [key |-> "disk_pct_free", icon |-> "mdi:harddisk",
     unit_metric |-> PERCENTAGE, unit_imperial |-> PERCENTAGE,
     native_unit_of_measurement |-> PERCENTAGE,
     conversion |-> [op |-> "mul_round", by |-> 100, ndigits |-> 1],
     calculation |-> [op |-> "one_minus_ratio", num |-> "disk", den |-> "maxdisk"],
     state_class |-> SensorStateClass_MEASUREMENT]

(* mutant: the calculation copied from 'disk_pct_free' with its fields *)
Calculated_mem_pct_free_DiskFields ==
    [key |-> "mem_pct_free", icon |-> "mdi:memory",
     unit_metric |-> PERCENTAGE, unit_imperial |-> PERCENTAGE,
     native_unit_of_measurement |-> PERCENTAGE,
     conversion |-> [op |-> "mul_round", by |-> 100, ndigits |-> 1],
     calculation |-> [op |-> "one_minus_ratio", num |-> "disk", den |-> "maxdisk"],
     state_class |-> SensorStateClass_MEASUREMENT]

(* const.py, lines 171-180 *)
Calculated_mem_pct_free ==
    [key |-> "mem_pct_free", icon |-> "mdi:memory",
     unit_metric |-> PERCENTAGE, unit_imperial |-> PERCENTAGE,
     native_unit_of_measurement |-> PERCENTAGE,
     conversion |-> [op |-> "mul_round", by |-> 100, ndigits |-> 1],
     calculation |-> [op |-> "one_minus_ratio", num |-> "mem", den |-> "maxmem"],
     state_class |-> SensorStateClass_MEASUREMENT]

PROXMOX_CALCULATED_SENSOR_TYPES ==
    << Calculated_disk_pct_free, Calculated_mem_pct_free >>

(* const.py, lines 184-197 *)
Switch_Switch ==
    [key |-> "Switch", icon |-> "mdi:server",
     start_command |-> COMMAND_START, stop_command |-> COMMAND_SHUTDOWN]

(* mutant: a stop command outside the vocabulary *)
Switch_Switch_Stop_Kill ==
    [key |-> "Switch_Stop", icon |-> "mdi:server",
     start_command |-> COMMAND_START, stop_command |-> "kill"]

Switch_Switch_Stop ==
    [key |-> "Switch_Stop", icon |-> "mdi:server",
     start_command |-> COMMAND_START, stop_command |-> COMMAND_STOP]

PROXMOX_SWITCH_TYPES == << Switch_Switch, Switch_Switch_Stop >>

(* mutant: the experimental suspend command has no button *)
PROXMOX_BUTTON_TYPES_NoSuspend ==
    << [key |-> COMMAND_REBOOT, icon |-> "mdi:restart"],
       [key |-> COMMAND_START, icon |-> "mdi:server"],
       [key |-> COMMAND_SHUTDOWN, icon |-> "mdi:server-off"],
       [key |-> COMMAND_STOP, icon |-> "mdi:stop"],
       [key |-> COMMAND_RESUME, icon |-> "mdi:play",
        entity_registry_enabled_default |-> FALSE] >>

(* const.py, lines 199-226 *)
PROXMOX_BUTTON_TYPES ==
    << [key |-> COMMAND_REBOOT, icon |-> "mdi:restart"],
       [key |-> COMMAND_START, icon |-> "mdi:server"],
       [key |-> COMMAND_SHUTDOWN, icon |-> "mdi:server-off"],
       [key |-> COMMAND_STOP, icon |-> "mdi:stop"],
       [key |-> COMMAND_RESUME, icon |-> "mdi:play",
        entity_registry_enabled_default |-> FALSE],
       [key |-> COMMAND_SUSPEND, icon |-> "mdi:pause",
        entity_registry_enabled_default |-> FALSE] >>

(* [sensor.key for sensor in t] *)
Keys(t) == [i \in DOMAIN t |-> t[i].key]

(* mutant: the keys taken from the concatenated table *)
PARSE_DATA_FromAll ==
    Keys((PROXMOX_SENSOR_TYPES \o PROXMOX_CALCULATED_SENSOR_TYPES)
         \o PROXMOX_BINARYSENSOR_TYPES) \o << "name" >>

(* const.py, lines 228-230 *)
PARSE_DATA ==
    Keys(PROXMOX_SENSOR_TYPES \o PROXMOX_BINARYSENSOR_TYPES) \o << "name" >>

(* const.py, line 231 *)
PROXMOX_SENSOR_TYPES_ALL ==
    PROXMOX_SENSOR_TYPES \o PROXMOX_CALCULATED_SENSOR_TYPES

(***************************************************************************)
(* Python's arithmetic, as far as the lambdas use it.                      *)
(***************************************************************************)
RECURSIVE GCD(_, _)
GCD(a, b) == IF b = 0 THEN a ELSE GCD(b, a % b)

RECURSIVE IsPow2(_)
IsPow2(n) == n = 1 \/ (n > 1 /\ n % 2 = 0 /\ IsPow2(n \div 2))

RECURSIVE Pow(_, _)
Pow(b, e) == IF e = 0 THEN 1 ELSE b * Pow(b, e - 1)

(* The double nearest to n / d (d > 0).  It is n / d itself exactly when   *)
(* the reduced denominator is a power of two.                              *)
MkFloat(n, d) ==
    [hi |-> n \div d, lo |-> n % d, den |-> d,
     exact |-> IsPow2(d \div GCD(d, n % d))]

(* a / b on ints, b > 0: true division, correctly rounded to a double *)
TrueDiv(a, b) == MkFloat(a, b)

(* v + w for two floats of the same denominator *)
FloatAdd(v, w) ==
    LET s == v.lo + w.lo
        carry == IF s >= v.den THEN 1 ELSE 0
    IN  [hi |-> v.hi + w.hi + carry, lo |-> s - carry * v.den,
         den |-> v.den, exact |-> v.exact /\ w.exact]

(* v * m for a float v and a small int m >= 0, by doubling: no product of  *)
(* the model leaves the 32-bit range of TLC's integers.                    *)
RECURSIVE FloatTimes(_, _)
FloatTimes(v, m) ==
    IF m = 0 THEN [hi |-> 0, lo |-> 0, den |-> v.den, exact |-> v.exact]
    ELSE LET h == FloatTimes(v, m \div 2)
             dbl == FloatAdd(h, h)
         IN  IF m % 2 = 1 THEN FloatAdd(dbl, v) ELSE dbl

(* 1 - v *)
OneMinus(v) ==
    IF v.lo = 0
    THEN [hi |-> 1 - v.hi, lo |-> 0, den |-> v.den, exact |-> v.exact]
    ELSE [hi |-> 0 - v.hi, lo |-> v.den - v.lo, den |-> v.den,
          exact |-> v.exact]

RoundedFloat(s, ndigits) ==
    [kind |-> "float", scaled |-> s, ndigits |-> ndigits]

(* mutant: halves rounded up *)
Round_HalfUp(v, ndigits) ==
    LET s == FloatTimes(v, Pow(10, ndigits))
    IN  IF 2 * s.lo < s.den THEN { RoundedFloat(s.hi, ndigits) }
        ELSE { RoundedFloat(s.hi + 1, ndigits) }

(* round(v, ndigits): the set of results the build can produce.  Python    *)
(* rounds the double it holds correctly, halves to even.  When v is exact  *)
(* that is the rounding of the rational.  When v carries a rounding error  *)
(* (some 1e-16 relative) the result is the same unless the rational lies   *)
(* exactly half way, where the sign of the error decides.                  *)
Round(v, ndigits) ==
    LET s == FloatTimes(v, Pow(10, ndigits))
        down == s.hi
        up == s.hi + 1
    IN  IF 2 * s.lo < s.den THEN { RoundedFloat(down, ndigits) }
        ELSE IF 2 * s.lo > s.den THEN { RoundedFloat(up, ndigits) }
        ELSE IF v.exact
             THEN { RoundedFloat(IF down % 2 = 0 THEN down ELSE up, ndigits) }
             ELSE { RoundedFloat(down, ndigits), RoundedFloat(up, ndigits) }

(* timedelta(seconds=x) for an int x, normalised as datetime does *)
Timedelta(x) ==
    [kind |-> "timedelta", days |-> x \div 86400, seconds |-> x % 86400,
     microseconds |-> 0]

Raise(exc) == [kind |-> "raise", exc |-> exc]

(* mutant: the division guarded, 0 free when max is 0 *)
Call_Guarded(fn, x) ==
    CASE fn.op = "timedelta" -> { Timedelta(x) }
      [] fn.op = "truediv_round" -> Round(TrueDiv(x, fn.by), fn.ndigits)
      [] fn.op = "mul_round" -> Round(FloatTimes(x, fn.by), fn.ndigits)
      [] fn.op = "one_minus_ratio" ->
            IF x[fn.den] = 0 THEN { MkFloat(0, 1) }
            ELSE { OneMinus(TrueDiv(x[fn.num], x[fn.den])) }

(* The call fn(x) of a descriptor's lambda: the set of its outcomes, a     *)
(* returned value or a raised exception.                                   *)
Call(fn, x) ==
    CASE fn.op = "timedelta" -> { Timedelta(x) }
      [] fn.op = "truediv_round" -> Round(TrueDiv(x, fn.by), fn.ndigits)
      [] fn.op = "mul_round" -> Round(FloatTimes(x, fn.by), fn.ndigits)
      [] fn.op = "one_minus_ratio" ->
            IF x[fn.den] = 0 THEN { Raise("ZeroDivisionError") }
            ELSE { OneMinus(TrueDiv(x[fn.num], x[fn.den])) }

(***************************************************************************)
(* The inputs.                                                             *)
(***************************************************************************)
Units == { 1073741824, 1048576 }

(* byte counts: around every eighth of a unit (0.125, 0.375, ... are the   *)
(* exact halves of a hundredth) and around the first half-hundredths       *)
ByteInputs ==
    { b \in { i * (u \div 8) + d :
                u \in Units, i \in 0 .. MaxEighth, d \in (0 - MaxDelta) .. MaxDelta }
            \cup { k * (u \div 200) + d :
                u \in Units, k \in 0 .. MaxCents, d \in 0 .. MaxCents } :
      b >= 0 }

(* fractions in [0, 1]: dyadic ones (exact doubles) and n / DecDen *)
FracInputs ==
    { MkFloat(n, Pow(2, FracBits)) : n \in 0 .. Pow(2, FracBits) }
    \cup { MkFloat(n, DecDen) : n \in 0 .. DecDen }

SecondsInputs ==
    { i * 86400 + d : i \in 0 .. MaxDays, d \in { 0, 1, 86399 } }

(* raw records: byte counts used/max, in bytes and in MiB, with max = 0,  *)
(* used > max, and quotients that are and are not dyadic                   *)
MaxInputs == { 0, 3, 16, 80 }
Scales == { 1, 1048576 }
Pairs ==
    { << u * s, m * s >> : u \in 0 .. MaxUsed, m \in MaxInputs, s \in Scales }
RawRecords ==
    { [disk |-> p[1], maxdisk |-> p[2], mem |-> q[1], maxmem |-> q[2]] :
        p \in Pairs, q \in Pairs }

Inputs(fn) ==
    CASE fn.op = "timedelta" -> SecondsInputs
      [] fn.op = "truediv_round" -> ByteInputs
      [] fn.op = "mul_round" -> FracInputs
      [] fn.op = "one_minus_ratio" -> RawRecords

(***************************************************************************)
(* The state: the module's globals after load, and the last call made.     *)
(***************************************************************************)
VARIABLES
    globals,    \* the module's namespace: name -> table
    key,        \* the key of the descriptor whose lambdas ran last
    fn,         \* the lambda in progress: "conversion", "calculation", "none"
    arg,        \* the argument as the caller passed it
    x,          \* the argument object as the call left it
    result      \* what the call returned or raised

vars == << globals, key, fn, arg, x, result >>

(* the module body, run once at import *)
Load ==
    [VM_COMMANDS |-> VM_COMMANDS,
     PROXMOX_BINARYSENSOR_TYPES |-> PROXMOX_BINARYSENSOR_TYPES,
     PROXMOX_SENSOR_TYPES |-> PROXMOX_SENSOR_TYPES,
     PROXMOX_CALCULATED_SENSOR_TYPES |-> PROXMOX_CALCULATED_SENSOR_TYPES,
     PROXMOX_SWITCH_TYPES |-> PROXMOX_SWITCH_TYPES,
     PROXMOX_BUTTON_TYPES |-> PROXMOX_BUTTON_TYPES,
     PARSE_DATA |-> PARSE_DATA,
     PROXMOX_SENSOR_TYPES_ALL |-> PROXMOX_SENSOR_TYPES_ALL]

Init ==
    /\ globals = Load
    /\ key = "none"
    /\ fn = "none"
    /\ arg = "none"
    /\ x = "none"
    /\ result = [kind |-> "none"]

(* description.conversion(v) for the i-th descriptor of                    *)
(* PROXMOX_SENSOR_TYPES_ALL and an input v: a pure function of v.  The     *)
(* state after the step is the call's frame as it returns.                 *)
Convert(i) ==
    LET d == globals.PROXMOX_SENSOR_TYPES_ALL[i]
    IN  /\ fn = "none"
        /\ "conversion" \in DOMAIN d
        /\ \E v \in Inputs(d.conversion) :
              /\ \E r \in Call(d.conversion, v) : result' = r
              /\ arg' = v
              /\ x' = v
        /\ key' = d.key
        /\ fn' = "conversion"
        /\ UNCHANGED globals

(* mutant: the calculation guards the division by patching the record it  *)
(* was passed                                                              *)
Calculate_InPlace(i) ==
    LET d == globals.PROXMOX_SENSOR_TYPES_ALL[i]
    IN  /\ fn = "none"
        /\ "calculation" \in DOMAIN d
        /\ \E rec \in Inputs(d.calculation) :
              LET patched == [rec EXCEPT ![d.calculation.den] =
                                            IF @ = 0 THEN 1 ELSE @]
              IN  /\ \E y \in Call(d.calculation, patched) :
                        \E r \in Call(d.conversion, y) : result' = r
                  /\ arg' = rec
                  /\ x' = patched
        /\ key' = d.key
        /\ fn' = "calculation"
        /\ UNCHANGED globals

(* description.conversion(description.calculation(rec)) for the i-th       *)
(* descriptor and a raw record rec: the calculation reads two fields of    *)
(* rec; a raised exception propagates.                                     *)
Calculate(i) ==
    LET d == globals.PROXMOX_SENSOR_TYPES_ALL[i]
    IN  /\ fn = "none"
        /\ "calculation" \in DOMAIN d
        /\ \E rec \in Inputs(d.calculation) :
              /\ \E y \in Call(d.calculation, rec) :
                    IF "kind" \in DOMAIN y
                    THEN result' = y
                    ELSE \E r \in Call(d.conversion, y) : result' = r
              /\ arg' = rec
              /\ x' = rec
        /\ key' = d.key
        /\ fn' = "calculation"
        /\ UNCHANGED globals

(* The call returns to its caller: the frame is gone, the module's         *)
(* globals stay.                                                           *)
Return ==
    /\ fn # "none"
    /\ key' = "none"
    /\ fn' = "none"
    /\ arg' = "none"
    /\ x' = "none"
    /\ result' = [kind |-> "none"]
    /\ UNCHANGED globals

Next ==
    \/ \E i \in DOMAIN globals.PROXMOX_SENSOR_TYPES_ALL : Convert(i)
    \/ \E i \in DOMAIN globals.PROXMOX_SENSOR_TYPES_ALL : Calculate(i)
    \/ Return

Spec == Init /\ [][Next]_vars

(***************************************************************************)
(* The properties.  Their arithmetic is their own: decimal long division,  *)
(* one digit at a time, not the operators of the model above.              *)
(***************************************************************************)
Range(t) == { t[i] : i \in DOMAIN t }

(* << floor(k * r / d), (k * r) mod d >> for 0 <= r < d, by k additions *)
RECURSIVE Ratio(_, _, _)
Ratio(k, r, d) ==
    IF k = 0 THEN << 0, 0 >>
    ELSE LET p == Ratio(k - 1, r, d)
             s == p[2] + r
         IN  IF s >= d THEN << p[1] + 1, s - d >> ELSE << p[1], s >>

(* one more decimal digit: from << floor(v), rem >> of v = floor + rem/d   *)
(* to that of 10 v                                                         *)
NextDigit(p, d) ==
    LET t == Ratio(10, p[2], d)
    IN  << 10 * p[1] + t[1], t[2] >>

(* << floor(100 n / d), remainder >> for an integer n and d > 0 *)
Scaled100(n, d) == NextDigit(NextDigit(<< n \div d, n % d >>, d), d)

(* << floor(1000 n / d), remainder >> *)
Scaled1000(n, d) == NextDigit(Scaled100(n, d), d)

(* s is an integer nearest to floor + rem/d; on an exact half the even one *)
(* when halfEven is asked for                                              *)
IsNearest(s, p, d, halfEven) ==
    /\ \/ s = p[1] /\ 2 * p[2] <= d
       \/ s = p[1] + 1 /\ 2 * p[2] >= d
    /\ (halfEven /\ 2 * p[2] = d) => s % 2 = 0

GbKeys == { "disk", "maxdisk", "mem", "maxmem" }
RateKeys == { "diskread", "diskwrite", "netin", "netout" }
PctKeys == { "cpu", "disk_pct_free", "mem_pct_free" }

(* C1: for every byte count b >= 0 the conversions of 'disk', 'maxdisk',   *)
(* 'mem' and 'maxmem' return b / 2^30 rounded to 2 decimal places: the     *)
(* hundredth nearest to b / 1073741824, the even one on an exact half.     *)
C1_GigabyteConversion ==
    (fn = "conversion" /\ key \in GbKeys) =>
        /\ arg >= 0
        /\ result.kind = "float"
        /\ result.ndigits = 2
        /\ IsNearest(result.scaled, Scaled100(arg, 1073741824), 1073741824, TRUE)

(* 0.375 GiB is an exact half of a hundredth: 'maxmem' returns 0.38 *)
C1_Witness ==
    /\ fn = "conversion"
    /\ key = "maxmem"
    /\ arg = 402653184
    /\ result = [kind |-> "float", scaled |-> 38, ndigits |-> 2]

(* C2: for every byte count b >= 0 the conversions of 'diskread',          *)
(* 'diskwrite', 'netin' and 'netout' return b / 2^20 rounded to 2 decimal  *)
(* places: the hundredth nearest to b / 1048576.                           *)
C2_MegabyteRateConversion ==
    (fn = "conversion" /\ key \in RateKeys) =>
        /\ arg >= 0
        /\ result.kind = "float"
        /\ result.ndigits = 2
        /\ IsNearest(result.scaled, Scaled100(arg, 1048576), 1048576, TRUE)

(* 5243 bytes is the first count past half a hundredth of a MiB: 'netin'   *)
(* returns 0.01                                                            *)
C2_Witness ==
    /\ fn = "conversion"
    /\ key = "netin"
    /\ arg = 5243
    /\ result = [kind |-> "float", scaled |-> 1, ndigits |-> 2]

(* C3: for every fraction f in [0, 1] the conversions of 'cpu',            *)
(* 'disk_pct_free' and 'mem_pct_free' return f * 100 rounded to 1 decimal  *)
(* place: the tenth nearest to 100 f (the even one on an exact half when   *)
(* f is held exactly), which lies in [0, 100].                             *)
C3_PercentConversion ==
    (fn = "conversion" /\ key \in PctKeys) =>
        /\ arg.hi * arg.den + arg.lo \in 0 .. arg.den
        /\ result.kind = "float"
        /\ result.ndigits = 1
        /\ IsNearest(result.scaled,
                     Scaled1000(arg.hi * arg.den + arg.lo, arg.den),
                     arg.den, arg.exact)
        /\ result.scaled \in 0 .. 1000

(* f = 0.0625: 100 f = 6.25 is an exact half of a tenth, 'cpu' returns 6.2 *)
C3_Witness ==
    /\ fn = "conversion"
    /\ key = "cpu"
    /\ arg = [hi |-> 0, lo |-> 2, den |-> 32, exact |-> TRUE]
    /\ result = [kind |-> "float", scaled |-> 62, ndigits |-> 1]

(* the two raw fields of the claim, per calculated key *)
UsedOf(k, rec) == IF k = "disk_pct_free" THEN rec.disk ELSE rec.mem
MaxOf(k, rec) == IF k = "disk_pct_free" THEN rec.maxdisk ELSE rec.maxmem

(* C4: for every record with max > 0, calculation then conversion of       *)
(* 'disk_pct_free' (used = disk, max = maxdisk) and of 'mem_pct_free'      *)
(* (used = mem, max = maxmem) yield (1 - used/max) * 100 rounded to 1      *)
(* decimal place: the tenth nearest to 100 (max - used) / max.             *)
C4_FreePercent ==
    (fn = "calculation" /\ key \in { "disk_pct_free", "mem_pct_free" }
        /\ MaxOf(key, arg) > 0) =>
        /\ result.kind = "float"
        /\ result.ndigits = 1
        /\ IsNearest(result.scaled,
                     Scaled1000(MaxOf(key, arg) - UsedOf(key, arg), MaxOf(key, arg)),
                     MaxOf(key, arg), FALSE)

(* mem = 1, maxmem = 3 beside disk = 5, maxdisk = 16: 'mem_pct_free'       *)
(* yields 66.7                                                             *)
C4_Witness ==
    /\ fn = "calculation"
    /\ key = "mem_pct_free"
    /\ arg = [disk |-> 5, maxdisk |-> 16, mem |-> 1, maxmem |-> 3]
    /\ result = [kind |-> "float", scaled |-> 667, ndigits |-> 1]

(* C5: the calculations are unguarded: with maxdisk = 0 (resp. maxmem = 0) *)
(* the calculation of 'disk_pct_free' (resp. 'mem_pct_free') ends in a     *)
(* division error whatever disk (resp. mem) is, and every other call of a  *)
(* conversion or a calculation returns a value.                            *)
C5_UnguardedDivision ==
    fn # "none" =>
        IF fn = "calculation" /\ MaxOf(key, arg) = 0
        THEN result = [kind |-> "raise", exc |-> "ZeroDivisionError"]
        ELSE result.kind \in { "float", "timedelta" }

(* disk = 7 of maxdisk = 0: ZeroDivisionError *)
C5_Witness ==
    /\ fn = "calculation"
    /\ key = "disk_pct_free"
    /\ arg.disk = 7
    /\ arg.maxdisk = 0
    /\ arg.maxmem > 0
    /\ result = [kind |-> "raise", exc |-> "ZeroDivisionError"]

UniqueKeys(t) == \A i, j \in DOMAIN t : t[i].key = t[j].key => i = j

(* C6: no two descriptors of one table share a key, for each of the five   *)
(* tables and for the concatenation PROXMOX_SENSOR_TYPES_ALL.              *)
C6_UniqueKeys ==
    /\ UniqueKeys(globals.PROXMOX_BINARYSENSOR_TYPES)
    /\ UniqueKeys(globals.PROXMOX_SENSOR_TYPES)
    /\ UniqueKeys(globals.PROXMOX_CALCULATED_SENSOR_TYPES)
    /\ UniqueKeys(globals.PROXMOX_SWITCH_TYPES)
    /\ UniqueKeys(globals.PROXMOX_BUTTON_TYPES)
    /\ UniqueKeys(globals.PROXMOX_SENSOR_TYPES_ALL)

(* the loaded tables hold 1, 11, 2, 2, 6 and 13 descriptors, and the last  *)
(* descriptor of the concatenation has been called                         *)
C6_Witness ==
    /\ Len(globals.PROXMOX_BINARYSENSOR_TYPES) = 1
    /\ Len(globals.PROXMOX_SENSOR_TYPES) = 11
    /\ Len(globals.PROXMOX_CALCULATED_SENSOR_TYPES) = 2
    /\ Len(globals.PROXMOX_SWITCH_TYPES) = 2
    /\ Len(globals.PROXMOX_BUTTON_TYPES) = 6
    /\ Len(globals.PROXMOX_SENSOR_TYPES_ALL) = 13
    /\ key = globals.PROXMOX_SENSOR_TYPES_ALL[13].key

(* C7: both commands of every switch descriptor are in VM_COMMANDS.        *)
C7_SwitchCommandsInVocabulary ==
    \A i \in DOMAIN globals.PROXMOX_SWITCH_TYPES :
        /\ globals.PROXMOX_SWITCH_TYPES[i].start_command \in Range(globals.VM_COMMANDS)
        /\ globals.PROXMOX_SWITCH_TYPES[i].stop_command \in Range(globals.VM_COMMANDS)

(* the two switches: start/shutdown and start/stop *)
C7_Witness ==
    /\ Len(globals.PROXMOX_SWITCH_TYPES) = 2
    /\ globals.PROXMOX_SWITCH_TYPES[1].stop_command = "shutdown"
    /\ globals.PROXMOX_SWITCH_TYPES[2].stop_command = "stop"
    /\ globals.PROXMOX_SWITCH_TYPES[2].start_command = "start"
    /\ fn = "none"

(* C8: the button keys are exactly the six lifecycle actions, which are    *)
(* exactly VM_COMMANDS, and every command has exactly one button.          *)
C8_ButtonsAreTheCommands ==
    /\ Range(Keys(globals.PROXMOX_BUTTON_TYPES)) = Range(globals.VM_COMMANDS)
    /\ Range(globals.VM_COMMANDS) =
          { "reboot", "start", "stop", "shutdown", "resume", "suspend" }
    /\ \A c \in Range(globals.VM_COMMANDS) :
          Cardinality({ i \in DOMAIN globals.PROXMOX_BUTTON_TYPES :
                          globals.PROXMOX_BUTTON_TYPES[i].key = c }) = 1

(* six buttons for six commands, in another order than VM_COMMANDS *)
C8_Witness ==
    /\ Len(globals.PROXMOX_BUTTON_TYPES) = 6
    /\ Len(globals.VM_COMMANDS) = 6
    /\ globals.PROXMOX_BUTTON_TYPES[2].key = globals.VM_COMMANDS[4]
    /\ fn = "conversion"

(* C9: after load no call of a conversion or a calculation changes a       *)
(* table of the module, and a call leaves the argument it was passed as    *)
(* it was.                                                                 *)
C9_Immutable ==
    [][/\ globals' = globals
       /\ fn' # "none" => x' = arg']_vars

(* a calculation has run on a raw record and returned a value; the tables  *)
(* are those built at load and the record is as passed                     *)
C9_Witness ==
    /\ fn = "calculation"
    /\ result.kind = "float"
    /\ arg.maxdisk = 80
    /\ x = arg
    /\ globals = Load

(* C10: PARSE_DATA is the keys of PROXMOX_SENSOR_TYPES, then those of      *)
(* PROXMOX_BINARYSENSOR_TYPES, then 'name'; the fields the calculations    *)
(* read (disk, maxdisk, mem, maxmem) are in it and no calculated key is.   *)
C10_ParseData ==
    /\ globals.PARSE_DATA =
          [i \in 1 .. Len(globals.PROXMOX_SENSOR_TYPES) |->
              globals.PROXMOX_SENSOR_TYPES[i].key]
          \o [i \in 1 .. Len(globals.PROXMOX_BINARYSENSOR_TYPES) |->
              globals.PROXMOX_BINARYSENSOR_TYPES[i].key]
          \o << "name" >>
    /\ \A i \in DOMAIN globals.PROXMOX_CALCULATED_SENSOR_TYPES :
          LET d == globals.PROXMOX_CALCULATED_SENSOR_TYPES[i]
          IN  /\ d.calculation.num \in Range(globals.PARSE_DATA)
              /\ d.calculation.den \in Range(globals.PARSE_DATA)
              /\ d.key \notin Range(globals.PARSE_DATA)
    /\ { globals.PROXMOX_CALCULATED_SENSOR_TYPES[i].calculation.num :
           i \in DOMAIN globals.PROXMOX_CALCULATED_SENSOR_TYPES }
       \cup { globals.PROXMOX_CALCULATED_SENSOR_TYPES[i].calculation.den :
           i \in DOMAIN globals.PROXMOX_CALCULATED_SENSOR_TYPES }
       = { "disk", "maxdisk", "mem", "maxmem" }

(* thirteen names, 'status' and 'name' last, while a calculation that      *)
(* reads 'mem' and 'maxmem' has run                                        *)
C10_Witness ==
    /\ Len(globals.PARSE_DATA) = 13
    /\ globals.PARSE_DATA[12] = "status"
    /\ globals.PARSE_DATA[13] = "name"
    /\ fn = "calculation"
    /\ key = "mem_pct_free"

=============================================================================
